---- MODULE Spec2Model ----
(***************************************************************************)
(* Model of python/scripts/publish_juliaxbt_to_marketplace.py: the         *)
(* publish workflow of main() (connect, clean up an existing agent,        *)
(* list, create, set RUNNING, get_info, return) run against the JuliaOS    *)
(* backend.  The backend and the juliaos client library are not part of    *)
(* the script; their behaviour is modelled from the interface described    *)
(* in spec.md sections 4.1, 4.2 and 7.                                     *)
(***************************************************************************)
EXTENDS Integers, Sequences, FiniteSets, TLC

VARIABLES
    store,           \* backend: sequence of agent resources, index = resource uid
    envLast,         \* last set_state issued by another client before the runs
    pc,              \* pc[r]: position of run r inside main()
    conn,            \* conn[r]: "none" | "open" | "closed"
    existing_agent,  \* existing_agent[r]: uid bound at line 296, 0 when unbound
    agent,           \* agent[r]: uid bound at line 316, 0 when unbound
    agent_info,      \* agent_info[r]: value bound at line 332
    swallowed,       \* swallowed[r]: exception caught by the inner except, line 300
    err,             \* err[r]: exception on its way to the outer except, line 371
    result,          \* result[r]: return value of main(), -1 before it returns
    log,             \* log[r]: the backend calls run r has made, in order
    pre,             \* pre[r]: the backend's store when run r started
    snap,            \* snap[r]: the backend's store when run r called create
    overlap,         \* TRUE once a run started while another one was active
    faults           \* number of transport faults the backend has injected

vars == <<store, envLast, pc, conn, existing_agent, agent, agent_info,
          swallowed, err, result, log, pre, snap, overlap, faults>>

\* number of transport faults injected over all runs
MaxFaults == 2

\* the runs of main(): two, one after the other or interleaved
Runs == {1, 2}

----------------------------------------------------------------------------
(* Configuration of the script *)

AGENT_ID == "juliaxbt-investigator"

AGENT_BLUEPRINT ==
    [tools |-> <<"solana_rpc", "transaction_tracer", "mixer_detector",
                 "twitter_research", "thread_generator">>,
     strategy |-> "juliaxbt_investigation",
     trigger |-> "webhook"]

\* mutant of TargetState: main() asks for another state
TargetStatePaused == "PAUSED"

\* the state main() asks for at line 327
TargetState == "RUNNING"

----------------------------------------------------------------------------
(* Backend and client library, from spec.md 3, 4.1, 4.2, 7 *)

AgentState == {"CREATED", "RUNNING", "PAUSED", "DELETED"}

\* an older blueprint a previous publish may have left behind (Scenario A)
OldBlueprint ==
    [tools |-> <<"solana_rpc", "transaction_tracer">>,
     strategy |-> "legacy_investigation",
     trigger |-> "schedule"]

OTHER_ID == "another-agent"

Resource(id, st, bp) == [id |-> id, state |-> st, bp |-> bp]

\* uids of the resources that exist under id
Live(s, id) == {u \in DOMAIN s : s[u].id = id /\ s[u].state # "DELETED"}

\* transport faults a call can suffer, by operation
Faults(op) ==
    IF op = "create" THEN {"ConnectionError", "ValidationError"}
    ELSE {"ConnectionError"}

\* load(conn, id): read-only, NotFoundError when no resource with id exists
LoadOutcome(s, id) ==
    IF Live(s, id) = {}
    THEN [out |-> "NotFoundError", uid |-> 0]
    ELSE [out |-> "ok", uid |-> CHOOSE u \in Live(s, id) : TRUE]

\* delete() on handle u: NotFoundError when already deleted remotely
DeleteOutcome(s, u) ==
    IF s[u].state = "DELETED"
    THEN [out |-> "NotFoundError", store |-> s]
    ELSE [out |-> "ok", store |-> [s EXCEPT ![u].state = "DELETED"]]

\* create(conn, bp, id, ...): ConflictError when id already exists
CreateOutcome(s, id, bp) ==
    IF Live(s, id) # {}
    THEN [out |-> "ConflictError", uid |-> 0, store |-> s]
    ELSE [out |-> "ok", uid |-> Len(s) + 1,
          store |-> Append(s, Resource(id, "CREATED", bp))]

ValidTransition(from, to) ==
    <<from, to>> \in {<<"CREATED", "RUNNING">>, <<"RUNNING", "PAUSED">>,
                      <<"PAUSED", "RUNNING">>}

\* set_state(target) on handle u
SetStateOutcome(s, u, target) ==
    IF ValidTransition(s[u].state, target)
    THEN [out |-> "ok", store |-> [s EXCEPT ![u].state = target]]
    ELSE [out |-> "InvalidTransitionError", store |-> s]

\* get_info() on handle u: fresh snapshot {state, tools, strategy_name}
InfoOf(s, u) ==
    [state |-> s[u].state, tools |-> s[u].bp.tools,
     strategy_name |-> s[u].bp.strategy]

NoInfo == [state |-> "unknown", tools |-> <<>>, strategy_name |-> "unknown"]

----------------------------------------------------------------------------
(* Initial state *)

\* what the backend may hold before the script is ever run
InitialStores ==
    LET mine == {<<>>} \cup
                {<<Resource(AGENT_ID, st, bp)>> :
                    st \in AgentState, bp \in {OldBlueprint, AGENT_BLUEPRINT}}
        others == {<<>>, <<Resource(OTHER_ID, "RUNNING", OldBlueprint)>>}
    IN  {o \o m : o \in others, m \in mine}

NoEnv == [uid |-> 0, from |-> "none", target |-> "none", out |-> "none"]

Init ==
    /\ store \in InitialStores
    /\ envLast = NoEnv
    /\ pc = [r \in Runs |-> "idle"]
    /\ conn = [r \in Runs |-> "none"]
    /\ existing_agent = [r \in Runs |-> 0]
    /\ agent = [r \in Runs |-> 0]
    /\ agent_info = [r \in Runs |-> NoInfo]
    /\ swallowed = [r \in Runs |-> "none"]
    /\ err = [r \in Runs |-> "none"]
    /\ result = [r \in Runs |-> -1]
    /\ log = [r \in Runs |-> <<>>]
    /\ pre = [r \in Runs |-> <<>>]
    /\ snap = [r \in Runs |-> <<>>]
    /\ overlap = FALSE
    /\ faults = 0

Active(r) == pc[r] \notin {"idle", "done"}

Call(op, u, arg, out) == <<op, u, arg, out>>

Logged(r, c) == log' = [log EXCEPT ![r] = Append(@, c)]

\* the transport faults the backend may still inject into a call of op
Injectable(op) == IF faults < MaxFaults THEN Faults(op) ELSE {}

IsFault(out) == out \in {"ConnectionError", "ValidationError"}

Counted(out) == faults' = IF IsFault(out) THEN faults + 1 ELSE faults

----------------------------------------------------------------------------
(* Another client of the backend changing an agent's state before the runs *)

EnvSetState(u, target) ==
    /\ \A r \in Runs : pc[r] = "idle"
    /\ envLast = NoEnv
    /\ u \in DOMAIN store
    /\ LET o == SetStateOutcome(store, u, target)
       IN  /\ store' = o.store
           /\ envLast' = [uid |-> u, from |-> store[u].state,
                          target |-> target, out |-> o.out]
    /\ UNCHANGED <<pc, conn, existing_agent, agent, agent_info, swallowed,
                   err, result, log, pre, snap, overlap, faults>>

----------------------------------------------------------------------------
(* main(), lines 280-379 *)

\* line 369
RETURN_OK == 0

\* line 379
RETURN_ERROR == 1

\* mutant of Connect: a failed open is tried once more
ConnectRetries(r) ==
    /\ pc[r] \in {"idle", "connect"}
    /\ \A q \in Runs : q < r => pc[q] # "idle"
    /\ pre' = [pre EXCEPT ![r] = IF pc[r] = "idle" THEN store ELSE @]
    /\ overlap' = (overlap \/ \E q \in Runs : q # r /\ Active(q))
    /\ \E out \in {"ok"} \cup Injectable("open") :
          /\ Logged(r, Call("open", 0, "", out))
          /\ Counted(out)
          /\ IF out = "ok"
             THEN /\ conn' = [conn EXCEPT ![r] = "open"]
                  /\ pc' = [pc EXCEPT ![r] = "load"]
                  /\ UNCHANGED <<err, result>>
             ELSE IF pc[r] = "idle"
             THEN /\ pc' = [pc EXCEPT ![r] = "connect"]
                  /\ UNCHANGED <<conn, err, result>>
             ELSE /\ err' = [err EXCEPT ![r] = out]
                  /\ pc' = [pc EXCEPT ![r] = "done"]
                  /\ result' = [result EXCEPT ![r] = RETURN_ERROR]
                  /\ UNCHANGED conn
    /\ UNCHANGED <<store, envLast, existing_agent, agent, agent_info,
                   swallowed, snap>>

\* lines 280-291 and 371-379: main() is entered and opens the connection
\* (with juliaos.JuliaOSConnection(HOST) as conn); a failure to open goes
\* straight to the outer except, which returns 1
Connect(r) ==
    /\ pc[r] = "idle"
    /\ \A q \in Runs : q < r => pc[q] # "idle"
    /\ pre' = [pre EXCEPT ![r] = store]
    /\ overlap' = (overlap \/ \E q \in Runs : q # r /\ Active(q))
    /\ \E out \in {"ok"} \cup Injectable("open") :
          /\ Logged(r, Call("open", 0, "", out))
          /\ Counted(out)
          /\ IF out = "ok"
             THEN /\ conn' = [conn EXCEPT ![r] = "open"]
                  /\ pc' = [pc EXCEPT ![r] = "load"]
                  /\ UNCHANGED <<err, result>>
             ELSE /\ err' = [err EXCEPT ![r] = out]
                  /\ pc' = [pc EXCEPT ![r] = "done"]
                  /\ result' = [result EXCEPT ![r] = RETURN_ERROR]
                  /\ UNCHANGED conn
    /\ UNCHANGED <<store, envLast, existing_agent, agent, agent_info,
                   swallowed, snap>>

\* mutant of CleanupCatches: the cleanup block without its try/except
CleanupCatchesNothing(e) == FALSE

\* line 300: "except Exception" catches every exception of the cleanup block
CleanupCatches(e) == TRUE

\* mutant of AfterLoadFound: the agent found is not deleted
AfterLoadFoundSkipsDelete == "list"

\* where a successful load continues: lines 297-298 delete the agent found
AfterLoadFound == "delete"

\* mutant of Load: an agent found is kept and only set RUNNING again
LoadReusesExisting(r) ==
    /\ pc[r] = "load"
    /\ \E o \in {LoadOutcome(store, AGENT_ID)} \cup
                {[out |-> f, uid |-> 0] : f \in Injectable("load")} :
          /\ Logged(r, Call("load", o.uid, "", o.out))
          /\ Counted(o.out)
          /\ IF o.out = "ok"
             THEN /\ existing_agent' = [existing_agent EXCEPT ![r] = o.uid]
                  /\ agent' = [agent EXCEPT ![r] = o.uid]
                  /\ pc' = [pc EXCEPT ![r] =
                              IF store[o.uid].state = "RUNNING"
                              THEN "get_info" ELSE "set_state"]
                  /\ UNCHANGED swallowed
             ELSE /\ swallowed' = [swallowed EXCEPT ![r] = o.out]
                  /\ pc' = [pc EXCEPT ![r] = "list"]
                  /\ UNCHANGED <<existing_agent, agent>>
    /\ UNCHANGED <<store, envLast, conn, agent_info, err, result, pre,
                   snap, overlap>>

\* lines 294-296 and 300-301: load the existing agent
Load(r) ==
    /\ pc[r] = "load"
    /\ \E o \in {LoadOutcome(store, AGENT_ID)} \cup
                {[out |-> f, uid |-> 0] : f \in Injectable("load")} :
          /\ Logged(r, Call("load", o.uid, "", o.out))
          /\ Counted(o.out)
          /\ IF o.out = "ok"
             THEN /\ existing_agent' = [existing_agent EXCEPT ![r] = o.uid]
                  /\ pc' = [pc EXCEPT ![r] = AfterLoadFound]
                  /\ UNCHANGED <<swallowed, err>>
             ELSE IF CleanupCatches(o.out)
             THEN /\ swallowed' = [swallowed EXCEPT ![r] = o.out]
                  /\ pc' = [pc EXCEPT ![r] = "list"]
                  /\ UNCHANGED <<existing_agent, err>>
             ELSE /\ err' = [err EXCEPT ![r] = o.out]
                  /\ pc' = [pc EXCEPT ![r] = "exit"]
                  /\ UNCHANGED <<existing_agent, swallowed>>
    /\ UNCHANGED <<store, envLast, conn, agent, agent_info, result, pre,
                   snap, overlap>>

\* lines 297-301: delete the existing agent
Delete(r) ==
    /\ pc[r] = "delete"
    /\ \E o \in {DeleteOutcome(store, existing_agent[r])} \cup
                {[out |-> f, store |-> store] : f \in Injectable("delete")} :
          /\ Logged(r, Call("delete", existing_agent[r], "", o.out))
          /\ Counted(o.out)
          /\ store' = o.store
          /\ IF o.out = "ok"
             THEN /\ pc' = [pc EXCEPT ![r] = "list"]
                  /\ UNCHANGED <<swallowed, err>>
             ELSE IF CleanupCatches(o.out)
             THEN /\ swallowed' = [swallowed EXCEPT ![r] = o.out]
                  /\ pc' = [pc EXCEPT ![r] = "list"]
                  /\ UNCHANGED err
             ELSE /\ err' = [err EXCEPT ![r] = o.out]
                  /\ pc' = [pc EXCEPT ![r] = "exit"]
                  /\ UNCHANGED swallowed
    /\ UNCHANGED <<envLast, conn, existing_agent, agent, agent_info, result,
                   pre, snap, overlap>>

\* mutant of List: a failure of list_agents is ignored
ListIgnoresFailure(r) ==
    /\ pc[r] = "list"
    /\ \E out \in {"ok"} \cup Injectable("list_agents") :
          /\ Logged(r, Call("list_agents", 0, "", out))
          /\ Counted(out)
          /\ pc' = [pc EXCEPT ![r] = "create"]
          /\ UNCHANGED err
    /\ UNCHANGED <<store, envLast, conn, existing_agent, agent, agent_info,
                   swallowed, result, pre, snap, overlap>>

\* lines 303-307: conn.list_agents()
List(r) ==
    /\ pc[r] = "list"
    /\ \E out \in {"ok"} \cup Injectable("list_agents") :
          /\ Logged(r, Call("list_agents", 0, "", out))
          /\ Counted(out)
          /\ IF out = "ok"
             THEN /\ pc' = [pc EXCEPT ![r] = "create"]
                  /\ UNCHANGED err
             ELSE /\ err' = [err EXCEPT ![r] = out]
                  /\ pc' = [pc EXCEPT ![r] = "exit"]
    /\ UNCHANGED <<store, envLast, conn, existing_agent, agent, agent_info,
                   swallowed, result, pre, snap, overlap>>

\* mutant of AfterCreate: the agent created is never set RUNNING
AfterCreateSkipsSetState == "get_info"

\* where a successful create continues: lines 325-327 set the state
AfterCreate == "set_state"

\* mutant of Create: a ConflictError is resolved by adopting the resource
\* that exists under AGENT_ID
CreateResolvesConflict(r) ==
    /\ pc[r] = "create"
    /\ snap' = [snap EXCEPT ![r] = store]
    /\ \E o \in {CreateOutcome(store, AGENT_ID, AGENT_BLUEPRINT)} \cup
                {[out |-> f, uid |-> 0, store |-> store] :
                    f \in Injectable("create")} :
          /\ Logged(r, Call("create", o.uid, "", o.out))
          /\ Counted(o.out)
          /\ store' = o.store
          /\ IF o.out = "ok"
             THEN /\ agent' = [agent EXCEPT ![r] = o.uid]
                  /\ pc' = [pc EXCEPT ![r] = AfterCreate]
                  /\ UNCHANGED err
             ELSE IF o.out = "ConflictError"
             THEN /\ agent' = [agent EXCEPT ![r] =
                                  CHOOSE u \in Live(store, AGENT_ID) : TRUE]
                  /\ pc' = [pc EXCEPT ![r] = "get_info"]
                  /\ UNCHANGED err
             ELSE /\ err' = [err EXCEPT ![r] = o.out]
                  /\ pc' = [pc EXCEPT ![r] = "exit"]
                  /\ UNCHANGED agent
    /\ UNCHANGED <<envLast, conn, existing_agent, agent_info, swallowed,
                   result, pre, overlap>>

\* mutant of Create: a failed create is tried once more
CreateRetries(r) ==
    /\ pc[r] = "create"
    /\ snap' = [snap EXCEPT ![r] = store]
    /\ \E o \in {CreateOutcome(store, AGENT_ID, AGENT_BLUEPRINT)} \cup
                {[out |-> f, uid |-> 0, store |-> store] :
                    f \in Injectable("create")} :
          /\ Logged(r, Call("create", o.uid, "", o.out))
          /\ Counted(o.out)
          /\ store' = o.store
          /\ IF o.out = "ok"
             THEN /\ agent' = [agent EXCEPT ![r] = o.uid]
                  /\ pc' = [pc EXCEPT ![r] = AfterCreate]
                  /\ UNCHANGED err
             ELSE /\ err' = [err EXCEPT ![r] = o.out]
                  /\ pc' = [pc EXCEPT ![r] =
                              IF \E i \in DOMAIN log[r] : log[r][i][1] = "create"
                              THEN "exit" ELSE "create"]
                  /\ UNCHANGED agent
    /\ UNCHANGED <<envLast, conn, existing_agent, agent_info, swallowed,
                   result, pre, overlap>>

\* lines 309-323: juliaos.Agent.create(conn, AGENT_BLUEPRINT, AGENT_ID, ...)
Create(r) ==
    /\ pc[r] = "create"
    /\ snap' = [snap EXCEPT ![r] = store]
    /\ \E o \in {CreateOutcome(store, AGENT_ID, AGENT_BLUEPRINT)} \cup
                {[out |-> f, uid |-> 0, store |-> store] :
                    f \in Injectable("create")} :
          /\ Logged(r, Call("create", o.uid, "", o.out))
          /\ Counted(o.out)
          /\ store' = o.store
          /\ IF o.out = "ok"
             THEN /\ agent' = [agent EXCEPT ![r] = o.uid]
                  /\ pc' = [pc EXCEPT ![r] = AfterCreate]
                  /\ UNCHANGED err
             ELSE /\ err' = [err EXCEPT ![r] = o.out]
                  /\ pc' = [pc EXCEPT ![r] = "exit"]
                  /\ UNCHANGED agent
    /\ UNCHANGED <<envLast, conn, existing_agent, agent_info, swallowed,
                   result, pre, overlap>>

\* lines 325-328: agent.set_state(juliaos.AgentState.RUNNING)
SetState(r) ==
    /\ pc[r] = "set_state"
    /\ \E o \in {SetStateOutcome(store, agent[r], TargetState)} \cup
                {[out |-> f, store |-> store] : f \in Injectable("set_state")} :
          /\ Logged(r, Call("set_state", agent[r], TargetState, o.out))
          /\ Counted(o.out)
          /\ store' = o.store
          /\ IF o.out = "ok"
             THEN /\ pc' = [pc EXCEPT ![r] = "get_info"]
                  /\ UNCHANGED err
             ELSE /\ err' = [err EXCEPT ![r] = o.out]
                  /\ pc' = [pc EXCEPT ![r] = "exit"]
    /\ UNCHANGED <<envLast, conn, existing_agent, agent, agent_info,
                   swallowed, result, pre, snap, overlap>>

\* what get_info() can answer for handle u; the interface does not say
\* what it answers for a resource deleted meanwhile
GetInfoOutcomes(s, u) ==
    {[out |-> "ok", info |-> InfoOf(s, u)]} \cup
    (IF s[u].state = "DELETED"
     THEN {[out |-> "NotFoundError", info |-> NoInfo]} ELSE {}) \cup
    {[out |-> f, info |-> NoInfo] : f \in Injectable("get_info")}

\* lines 330-368: agent.get_info() and the summary prints
GetInfo(r) ==
    /\ pc[r] = "get_info"
    /\ \E o \in GetInfoOutcomes(store, agent[r]) :
          /\ Logged(r, Call("get_info", agent[r], "", o.out))
          /\ Counted(o.out)
          /\ pc' = [pc EXCEPT ![r] = "exit"]
          /\ IF o.out = "ok"
             THEN /\ agent_info' = [agent_info EXCEPT ![r] = o.info]
                  /\ UNCHANGED err
             ELSE /\ err' = [err EXCEPT ![r] = o.out]
                  /\ UNCHANGED agent_info
    /\ UNCHANGED <<store, envLast, conn, existing_agent, agent, swallowed,
                   result, pre, snap, overlap>>

\* mutant of Exit: the connection is closed on the return 0 path only
ExitLeaksOnError(r) ==
    /\ pc[r] = "exit"
    /\ IF err[r] = "none"
       THEN /\ conn' = [conn EXCEPT ![r] = "closed"]
            /\ Logged(r, Call("close", 0, "", "ok"))
       ELSE UNCHANGED <<conn, log>>
    /\ pc' = [pc EXCEPT ![r] = "done"]
    /\ result' = [result EXCEPT ![r] =
                     IF err[r] = "none" THEN RETURN_OK ELSE RETURN_ERROR]
    /\ UNCHANGED <<store, envLast, existing_agent, agent, agent_info,
                   swallowed, err, pre, snap, overlap, faults>>

\* mutant of Exit: the outer except puts back the agent the run deleted
ExitRestoresDeleted(r) ==
    /\ pc[r] = "exit"
    /\ conn' = [conn EXCEPT ![r] = "closed"]
    /\ Logged(r, Call("close", 0, "", "ok"))
    /\ IF /\ err[r] # "none" /\ agent[r] = 0 /\ existing_agent[r] # 0
          /\ Live(store, AGENT_ID) = {}
       THEN store' = Append(store, [store[existing_agent[r]] EXCEPT
                                       !.state = "CREATED"])
       ELSE UNCHANGED store
    /\ pc' = [pc EXCEPT ![r] = "done"]
    /\ result' = [result EXCEPT ![r] =
                     IF err[r] = "none" THEN RETURN_OK ELSE RETURN_ERROR]
    /\ UNCHANGED <<envLast, existing_agent, agent, agent_info,
                   swallowed, err, pre, snap, overlap, faults>>

\* mutant of Exit: the outer except deletes the agent the run created
ExitRollsBack(r) ==
    /\ pc[r] = "exit"
    /\ conn' = [conn EXCEPT ![r] = "closed"]
    /\ IF err[r] # "none" /\ agent[r] # 0
       THEN /\ store' = DeleteOutcome(store, agent[r]).store
            /\ log' = [log EXCEPT ![r] =
                          @ \o <<Call("close", 0, "", "ok"),
                                 Call("delete", agent[r], "",
                                      DeleteOutcome(store, agent[r]).out)>>]
       ELSE /\ Logged(r, Call("close", 0, "", "ok"))
            /\ UNCHANGED store
    /\ pc' = [pc EXCEPT ![r] = "done"]
    /\ result' = [result EXCEPT ![r] =
                     IF err[r] = "none" THEN RETURN_OK ELSE RETURN_ERROR]
    /\ UNCHANGED <<envLast, existing_agent, agent, agent_info,
                   swallowed, err, pre, snap, overlap, faults>>

\* lines 290, 369 and 371-379: the with block is left, which closes the
\* connection, by return 0 or by an exception that the outer except turns
\* into return 1
Exit(r) ==
    /\ pc[r] = "exit"
    /\ conn' = [conn EXCEPT ![r] = "closed"]
    /\ Logged(r, Call("close", 0, "", "ok"))
    /\ pc' = [pc EXCEPT ![r] = "done"]
    /\ result' = [result EXCEPT ![r] =
                     IF err[r] = "none" THEN RETURN_OK ELSE RETURN_ERROR]
    /\ UNCHANGED <<store, envLast, existing_agent, agent, agent_info,
                   swallowed, err, pre, snap, overlap, faults>>

Next ==
    \/ \E u \in DOMAIN store, t \in AgentState : EnvSetState(u, t)
    \/ \E r \in Runs : Connect(r)
    \/ \E r \in Runs : Load(r)
    \/ \E r \in Runs : Delete(r)
    \/ \E r \in Runs : List(r)
    \/ \E r \in Runs : Create(r)
    \/ \E r \in Runs : SetState(r)
    \/ \E r \in Runs : GetInfo(r)
    \/ \E r \in Runs : Exit(r)

Spec == Init /\ [][Next]_vars

\* a step of run r once it has entered main(): every statement of main() is
\* a blocking call that returns or fails, or a local step
RunStep(r) ==
    Load(r) \/ Delete(r) \/ List(r) \/ Create(r) \/ SetState(r) \/ GetInfo(r)
    \/ Exit(r)

\* a run that is inside main() keeps going (lines 381-383: the process runs
\* main() to its return and exits with its value)
FairSpec == Spec /\ \A r \in Runs : WF_vars(RunStep(r))

----------------------------------------------------------------------------
(* Vocabulary of the properties *)

Done(r) == pc[r] = "done"

\* no run has been started after run r
Latest(r) == \A q \in Runs : q > r => pc[q] = "idle"

\* positions in log[r] of the calls of op
Calls(r, op) == {i \in DOMAIN log[r] : log[r][i][1] = op}

\* positions in log[r] of the calls of op that ended with out
CallsEnding(r, op, out) == {i \in Calls(r, op) : log[r][i][4] = out}

\* positions in log[r] of the calls of op that failed
CallsFailed(r, op) == {i \in Calls(r, op) : log[r][i][4] # "ok"}

NoFaultIn(r) == \A i \in DOMAIN log[r] : ~IsFault(log[r][i][4])

\* exactly one resource exists under AGENT_ID and it is RUNNING
OneRunning(s) ==
    /\ Cardinality(Live(s, AGENT_ID)) = 1
    /\ \A u \in Live(s, AGENT_ID) : s[u].state = "RUNNING"

----------------------------------------------------------------------------
(* C1 *)

TwoCleanRunsInSuccession ==
    /\ ~overlap
    /\ Done(1) /\ Done(2)
    /\ Live(pre[1], AGENT_ID) = {}
    /\ NoFaultIn(1) /\ NoFaultIn(2)

\* C1: idempotence of publish. When main() has run twice in succession
\* against a backend that held no resource under AGENT_ID and injected no
\* fault, exactly one resource exists under AGENT_ID, it is RUNNING, both
\* runs returned 0 and the second run met no ConflictError.
ClaimC1 ==
    TwoCleanRunsInSuccession =>
        /\ OneRunning(store)
        /\ result[1] = RETURN_OK /\ result[2] = RETURN_OK
        /\ err[2] # "ConflictError"
        /\ CallsEnding(2, "create", "ConflictError") = {}

\* the second run found the first run's agent, deleted it and created anew
WitnessC1 ==
    /\ TwoCleanRunsInSuccession
    /\ CallsEnding(2, "delete", "ok") # {}
    /\ CallsEnding(2, "create", "ok") # {}
    /\ agent[2] # agent[1]

----------------------------------------------------------------------------
(* C2 *)

\* run r was never interleaved with another run, has returned 0, and no
\* run has started since
SingleRunSucceeded(r) ==
    ~overlap /\ Done(r) /\ result[r] = RETURN_OK /\ Latest(r)

\* C2: post-condition of a successful publish. When a non-interleaved run
\* of main() has returned 0, exactly one resource exists under AGENT_ID, it
\* is the one the run created, it is RUNNING, its configuration is
\* AGENT_BLUEPRINT, and the state the run observed was RUNNING.
ClaimC2 ==
    \A r \in Runs : SingleRunSucceeded(r) =>
        /\ OneRunning(store)
        /\ Live(store, AGENT_ID) = {agent[r]}
        /\ store[agent[r]].bp = AGENT_BLUEPRINT
        /\ agent_info[r].state = "RUNNING"

\* a run succeeded although its cleanup met a fault
WitnessC2 ==
    \E r \in Runs : SingleRunSucceeded(r) /\ ~NoFaultIn(r)

----------------------------------------------------------------------------
(* C3 *)

\* run r succeeded on its own and a resource existed under AGENT_ID before
ReplacedExisting(r) ==
    SingleRunSucceeded(r) /\ Live(pre[r], AGENT_ID) # {}

\* C3: clean-slate replacement. When a resource existed under AGENT_ID
\* before a successful run (CREATED, RUNNING or PAUSED, whatever its
\* tools), the resource under AGENT_ID afterwards is a new one that has the
\* tools (so the tool count), strategy and trigger of AGENT_BLUEPRINT, the
\* old resource is DELETED, and the observed info shows the new tool count
\* and strategy.
ClaimC3 ==
    \A r \in Runs : ReplacedExisting(r) =>
        /\ \A u \in Live(store, AGENT_ID) :
              /\ u \notin Live(pre[r], AGENT_ID)
              /\ Len(store[u].bp.tools) = Len(AGENT_BLUEPRINT.tools)
              /\ store[u].bp.tools = AGENT_BLUEPRINT.tools
              /\ store[u].bp.strategy = AGENT_BLUEPRINT.strategy
              /\ store[u].bp.trigger = AGENT_BLUEPRINT.trigger
        /\ \A u \in Live(pre[r], AGENT_ID) : store[u].state = "DELETED"
        /\ Len(agent_info[r].tools) = Len(AGENT_BLUEPRINT.tools)
        /\ agent_info[r].strategy_name = AGENT_BLUEPRINT.strategy

\* an old PAUSED resource with the two tools of OldBlueprint was replaced
WitnessC3 ==
    \E r \in Runs :
        /\ ReplacedExisting(r)
        /\ \E u \in Live(pre[r], AGENT_ID) :
              pre[r][u].bp = OldBlueprint /\ pre[r][u].state = "PAUSED"

----------------------------------------------------------------------------
(* C4 *)

\* C4: a load that fails with ConnectionError is fatal. The run makes no
\* create call, and it returns failure with that ConnectionError.
ClaimC4 ==
    \A r \in Runs : CallsEnding(r, "load", "ConnectionError") # {} =>
        /\ Calls(r, "create") = {}
        /\ Done(r) => (result[r] = RETURN_ERROR /\ err[r] = "ConnectionError")

----------------------------------------------------------------------------
(* C5 *)

\* C5: a delete of the existing resource that fails with anything but
\* NotFoundError is returned to the caller, and the run makes no create
\* call.
ClaimC5 ==
    \A r \in Runs :
        \A i \in CallsFailed(r, "delete") : log[r][i][4] # "NotFoundError" =>
            /\ Calls(r, "create") = {}
            /\ Done(r) => (result[r] = RETURN_ERROR /\ err[r] = log[r][i][4])

----------------------------------------------------------------------------
(* C6 *)

\* run r ran on its own and its load found nothing under AGENT_ID
LoadFoundNothing(r) ==
    ~overlap /\ CallsEnding(r, "load", "NotFoundError") # {}

\* C6: absence tolerance. When load fails with NotFoundError the run does
\* not surface it: it goes on (to list_agents and create), NotFoundError
\* never becomes the run's error, and a run that meets no fault makes the
\* create call and returns 0.
ClaimC6 ==
    \A r \in Runs : LoadFoundNothing(r) =>
        /\ err[r] # "NotFoundError"
        /\ swallowed[r] = "NotFoundError"
        /\ pc[r] # "list" => Calls(r, "list_agents") # {}
        /\ (Done(r) /\ NoFaultIn(r)) =>
              /\ CallsEnding(r, "create", "ok") # {}
              /\ result[r] = RETURN_OK

\* a run published onto an identity without a prior resource and returned 0
WitnessC6 ==
    \E r \in Runs :
        LoadFoundNothing(r) /\ Done(r) /\ NoFaultIn(r) /\ result[r] = RETURN_OK

----------------------------------------------------------------------------
(* C7 *)

\* positions in log[r] of a create that failed with ConflictError or
\* ValidationError
CreateRejected(r) ==
    CallsEnding(r, "create", "ConflictError") \cup
    CallsEnding(r, "create", "ValidationError")

\* C7: fail-fast on create failure. When create fails with ConflictError or
\* ValidationError, the run made exactly one create call, makes no set_state
\* and no get_info call, ends with that error and returns 1, holds no handle,
\* and (for a run on its own, until another run starts) the backend's store
\* is what it was immediately before the create call.
ClaimC7 ==
    \A r \in Runs : \A i \in CreateRejected(r) :
        /\ Cardinality(Calls(r, "create")) = 1
        /\ Calls(r, "set_state") = {} /\ Calls(r, "get_info") = {}
        /\ pc[r] \in {"exit", "done"}
        /\ err[r] = log[r][i][4]
        /\ Done(r) => result[r] = RETURN_ERROR
        /\ agent[r] = 0
        /\ (~overlap /\ Latest(r)) => store = snap[r]

\* a run on its own ended after a ConflictError of create (the old resource
\* was still there because its delete had failed)
WitnessC7 ==
    \E r \in Runs :
        /\ ~overlap /\ Done(r)
        /\ CallsEnding(r, "create", "ConflictError") # {}
        /\ CallsFailed(r, "delete") # {}

----------------------------------------------------------------------------
(* C8 *)

\* C8: no rollback after a failed state transition. When set_state(RUNNING)
\* fails in a run on its own (until another run starts), the run ends with
\* failure, it makes no delete call after its create, and the resource it
\* created still exists under AGENT_ID in state CREATED.
ClaimC8 ==
    \A r \in Runs : (~overlap /\ Latest(r) /\ CallsFailed(r, "set_state") # {}) =>
        /\ pc[r] \in {"exit", "done"}
        /\ Done(r) => result[r] = RETURN_ERROR
        /\ \A i \in Calls(r, "delete") : \A j \in Calls(r, "create") : i < j
        /\ Calls(r, "get_info") = {}
        /\ agent[r] \in Live(store, AGENT_ID)
        /\ store[agent[r]].state = "CREATED"

\* a run returned 1 after its set_state failed
WitnessC8 ==
    \E r \in Runs :
        /\ ~overlap /\ Latest(r) /\ Done(r)
        /\ CallsFailed(r, "set_state") # {}
        /\ result[r] = RETURN_ERROR

----------------------------------------------------------------------------
(* C9 *)

\* the calls made through the connection
OnConnection == {"load", "delete", "list_agents", "create", "set_state", "get_info"}

\* C9: guaranteed connection release. A run that opened a connection has
\* closed it when it is done, whatever the exit path; the connection is open
\* whenever the run is at a backend call; and once closed, close is the last
\* call of the run's log, so no call is made on a closed connection.
ClaimC9 ==
    \A r \in Runs :
        /\ Done(r) => conn[r] = IF CallsEnding(r, "open", "ok") # {}
                                THEN "closed" ELSE "none"
        /\ pc[r] \in OnConnection \cup {"list", "exit"} => conn[r] = "open"
        /\ conn[r] = "closed" =>
              /\ Done(r)
              /\ log[r][Len(log[r])][1] = "close"
              /\ Cardinality(Calls(r, "close")) = 1
        /\ \A i \in DOMAIN log[r] : log[r][i][1] \in OnConnection =>
              /\ CallsEnding(r, "open", "ok") # {}
              /\ \A j \in Calls(r, "close") : i < j

\* a run that failed inside the with block is done with its connection closed
WitnessC9 ==
    \E r \in Runs : Done(r) /\ err[r] # "none" /\ conn[r] = "closed"

----------------------------------------------------------------------------
(* C10 *)

LegalTransitions ==
    {<<"CREATED", "RUNNING">>, <<"RUNNING", "PAUSED">>, <<"PAUSED", "RUNNING">>}

\* run r makes an accepted delete call on u in this step
DeletedBy(r, u) ==
    /\ Len(log'[r]) = Len(log[r]) + 1
    /\ log'[r][Len(log'[r])] = Call("delete", u, "", "ok")

\* every change of a resource's state is a legal set_state transition or the
\* effect of a delete call; a DELETED resource never changes
LegalSteps ==
    \A u \in DOMAIN store :
        /\ u \in DOMAIN store'
        /\ store[u].state = "DELETED" => store'[u].state = "DELETED"
        /\ store'[u].state # store[u].state =>
              \/ /\ store'[u].state = "DELETED"
                 /\ \E r \in Runs : DeletedBy(r, u)
              \/ /\ <<store[u].state, store'[u].state>> \in LegalTransitions
                 /\ \A r \in Runs : ~DeletedBy(r, u)

\* the answer another client got for its set_state
EnvAnswerLegal ==
    envLast # NoEnv =>
        /\ envLast.out = "ok" <=> <<envLast.from, envLast.target>> \in LegalTransitions
        /\ envLast.out # "ok" => envLast.out = "InvalidTransitionError"
        /\ envLast.from = "DELETED" => envLast.out = "InvalidTransitionError"

\* what the runs ask for: RUNNING, on the handle their create returned
RunsRequestRunning ==
    \A r \in Runs : \A i \in Calls(r, "set_state") :
        /\ log[r][i][3] = "RUNNING"
        /\ log[r][i][2] = agent[r]
        /\ i > 1 /\ log[r][i - 1] = Call("create", agent[r], "", "ok")
        /\ (log[r][i][4] = "ok" /\ ~overlap /\ Latest(r)) =>
              store[agent[r]].state = "RUNNING"

\* C10: transition legality. set_state succeeds only for CREATED->RUNNING,
\* RUNNING->PAUSED and PAUSED->RUNNING; DELETED is terminal and reached only
\* through delete(); set_state from DELETED is rejected with
\* InvalidTransitionError and leaves the state unchanged; and the only
\* transition a run of main() requests is RUNNING, on the handle it has
\* just created.
ClaimC10 ==
    /\ [][LegalSteps]_vars
    /\ []EnvAnswerLegal
    /\ []RunsRequestRunning

\* another client's DELETED->RUNNING was rejected, the resource is still
\* DELETED, and a run later set its fresh handle RUNNING
WitnessC10 ==
    /\ envLast.from = "DELETED" /\ envLast.target = "RUNNING"
    /\ envLast.out = "InvalidTransitionError"
    /\ store[envLast.uid].state = "DELETED"
    /\ \E r \in Runs : CallsEnding(r, "set_state", "ok") # {}

----------------------------------------------------------------------------
(* C11 *)

\* lines 337-343: the marketplace submission is a TODO that only prints; no
\* call submits the agent to the marketplace
MarketplaceSubmissions(r) == Calls(r, "publish_to_marketplace")

\* run r created its agent and set it RUNNING, and submitted nothing
PublishedWithoutSubmission(r) ==
    /\ Done(r)
    /\ CallsEnding(r, "create", "ok") # {}
    /\ CallsEnding(r, "set_state", "ok") # {}
    /\ CallsEnding(r, "get_info", "ok") # {}
    /\ MarketplaceSubmissions(r) = {}

\* C11: the unimplemented marketplace submission is a distinct outcome. A
\* run that created the agent and set it RUNNING without submitting it to
\* the marketplace does not return the value of a plain success.
ClaimC11 ==
    \A r \in Runs : PublishedWithoutSubmission(r) => result[r] # RETURN_OK

----------------------------------------------------------------------------
(* C12 *)

\* C12: a failed open is fatal. When opening the connection fails, the run
\* is over with result 1 and error ConnectionError, the failed open is the
\* only call it made (no second open, no load, delete, list_agents, create,
\* set_state or get_info), it holds no connection, and (for a run on its
\* own, until another run starts) the backend's store is what it was when
\* the run started.
ClaimC12 ==
    \A r \in Runs : CallsFailed(r, "open") # {} =>
        /\ Done(r)
        /\ result[r] = RETURN_ERROR
        /\ err[r] = "ConnectionError"
        /\ log[r] = <<Call("open", 0, "", "ConnectionError")>>
        /\ conn[r] = "none"
        /\ (~overlap /\ Latest(r)) => store = pre[r]

\* a run over an existing resource ended at its failed open
WitnessC12 ==
    \E r \in Runs :
        /\ CallsFailed(r, "open") # {}
        /\ ~overlap /\ Latest(r)
        /\ Live(store, AGENT_ID) # {}

----------------------------------------------------------------------------
(* C13 *)

\* the call of run r at position i is op on u and ended with out
IsCall(r, i, op, u, out) ==
    i \in DOMAIN log[r] /\ log[r][i] = Call(op, u, IF op = "set_state" THEN TargetState ELSE "", out)

\* the cleanup step (lines 294-301) of run r is over before position i: its
\* load failed, or its load succeeded and delete was called on that handle
CleanupOverBefore(r, i) ==
    \E j \in Calls(r, "load") :
        /\ j < i
        /\ \/ log[r][j][4] # "ok"
           \/ \E k \in Calls(r, "delete") :
                 j < k /\ k < i /\ log[r][k][2] = log[r][j][2]

\* C13: order of the backend calls of one run. load is the first call after
\* open and is made once; delete is made only on the handle a successful load
\* just returned and only before create; create is made at most once and only
\* after the cleanup step is over; set_state(RUNNING) only right after a
\* successful create, on its handle; get_info only right after a successful
\* set_state; and 0 is returned only after a successful get_info.
ClaimC13 ==
    \A r \in Runs :
        /\ Len(log[r]) >= 2 => log[r][2][1] = "load"
        /\ Cardinality(Calls(r, "load")) <= 1
        /\ \A i \in Calls(r, "delete") :
              /\ IsCall(r, i - 1, "load", log[r][i][2], "ok")
              /\ log[r][i][2] # 0
              /\ \A j \in Calls(r, "create") : i < j
        /\ Cardinality(Calls(r, "create")) <= 1
        /\ \A i \in Calls(r, "create") : CleanupOverBefore(r, i)
        /\ \A i \in Calls(r, "set_state") :
              /\ IsCall(r, i - 1, "create", log[r][i][2], "ok")
              /\ log[r][i][2] # 0
        /\ \A i \in Calls(r, "get_info") :
              IsCall(r, i - 1, "set_state", log[r][i][2], "ok")
        /\ result[r] = RETURN_OK =>
              \E i \in CallsEnding(r, "get_info", "ok") :
                  IsCall(r, i + 1, "close", 0, "ok")

\* a run made all of load, delete, create, set_state and get_info and
\* returned 0
WitnessC13 ==
    \E r \in Runs :
        /\ result[r] = RETURN_OK
        /\ Calls(r, "delete") # {}
        /\ Calls(r, "get_info") # {}

----------------------------------------------------------------------------
(* C14 *)

WorkflowCalls == {"load", "delete", "create", "set_state", "get_info"}

\* the call of run r at position i ended the cleanup step: a failed load, or
\* a delete
EndsCleanup(r, i) ==
    \/ i \in CallsFailed(r, "load")
    \/ i \in Calls(r, "delete")

\* C14, as claimed: between open and close a run makes only load, delete,
\* create, set_state and get_info calls; the call after the one that ends
\* the cleanup step is create; and a finished run whose cleanup step ended
\* has made a create call.
ClaimC14 ==
    \A r \in Runs :
        /\ \A i \in DOMAIN log[r] :
              log[r][i][1] \in WorkflowCalls \cup {"open", "close"}
        /\ \A i \in DOMAIN log[r] :
              (EndsCleanup(r, i) /\ i < Len(log[r])) =>
                  log[r][i + 1][1] = "create"
        /\ \A i \in DOMAIN log[r] :
              (EndsCleanup(r, i) /\ Done(r)) => Calls(r, "create") # {}

\* C14, amended: the calls of a run between open and close are load, delete,
\* list_agents, create, set_state and get_info. The call after the one that
\* ends the cleanup step is list_agents; after a successful list_agents the
\* next call is create; after a failed list_agents the run makes no create
\* call and returns 1. So a run aborts between cleanup and create without
\* attempting create exactly when list_agents fails.
ClaimC14Amended ==
    \A r \in Runs :
        /\ \A i \in DOMAIN log[r] :
              log[r][i][1] \in WorkflowCalls \cup {"list_agents", "open", "close"}
        /\ \A i \in DOMAIN log[r] :
              (EndsCleanup(r, i) /\ i < Len(log[r])) =>
                  log[r][i + 1][1] = "list_agents"
        /\ \A i \in CallsEnding(r, "list_agents", "ok") :
              i < Len(log[r]) => log[r][i + 1][1] = "create"
        /\ \A i \in CallsFailed(r, "list_agents") :
              /\ Calls(r, "create") = {}
              /\ i < Len(log[r]) => log[r][i + 1][1] = "close"
              /\ Done(r) => result[r] = RETURN_ERROR
        /\ \A i \in DOMAIN log[r] :
              (EndsCleanup(r, i) /\ Done(r)) =>
                  (Calls(r, "create") = {} <=> CallsFailed(r, "list_agents") # {})

\* a run deleted the existing agent and returned 1 after list_agents failed,
\* without a create call
WitnessC14 ==
    \E r \in Runs :
        /\ Done(r) /\ result[r] = RETURN_ERROR
        /\ CallsEnding(r, "delete", "ok") # {}
        /\ CallsFailed(r, "list_agents") # {}
        /\ Calls(r, "create") = {}

----------------------------------------------------------------------------
(* C15 *)

\* run r, on its own and with no run started since, has deleted the
\* resource it found and no create of it has succeeded
InWindow(r) ==
    /\ ~overlap /\ Latest(r)
    /\ CallsEnding(r, "delete", "ok") # {}
    /\ CallsEnding(r, "create", "ok") = {}

\* run r makes an accepted delete call in this step
DeleteStep(r) ==
    /\ pc[r] = "delete"
    /\ Len(log'[r]) = Len(log[r]) + 1
    /\ log'[r][Len(log'[r])][1] = "delete"
    /\ log'[r][Len(log'[r])][4] = "ok"

\* no resource exists under AGENT_ID from the delete of run r on, up to a
\* successful create; in particular when the run ends without one
NoResourceInWindow ==
    \A r \in Runs : InWindow(r) =>
        /\ Live(store, AGENT_ID) = {}
        /\ store[existing_agent[r]].state = "DELETED"
        /\ Len(store) = Len(pre[r])
        /\ Done(r) => result[r] = RETURN_ERROR

\* a successful delete puts the run before list_agents with no resource
\* under AGENT_ID, whatever the state of the resource deleted
DeleteOpensWindow ==
    \A r \in Runs : (DeleteStep(r) /\ ~overlap) =>
        /\ Live(store, AGENT_ID) # {}
        /\ Live(store', AGENT_ID) = {}
        /\ pc'[r] = "list"

\* C15: delete-then-create is neither atomic nor compensated. A run that
\* deleted the existing resource and ends before a create succeeded ends
\* with no resource under AGENT_ID (the old one stays DELETED, nothing is
\* put in its place), and every successful delete of a publish over an
\* existing resource leads to an intermediate state without a resource
\* under AGENT_ID.
ClaimC15 ==
    /\ []NoResourceInWindow
    /\ [][DeleteOpensWindow]_vars

\* a run deleted the existing resource, failed before a create succeeded,
\* and is done with no resource under AGENT_ID
WitnessC15 ==
    \E r \in Runs :
        /\ InWindow(r) /\ Done(r)
        /\ Live(pre[r], AGENT_ID) # {}
        /\ Live(store, AGENT_ID) = {}

----------------------------------------------------------------------------
(* C16 *)

\* the two runs were interleaved and the backend injected no fault
InterleavedNoFaults == overlap /\ faults = 0

\* C16: two interleaved runs for AGENT_ID. At most one resource exists under
\* AGENT_ID in every state; when the runs were interleaved without injected
\* faults and both are over, exactly one exists; and a run whose create met
\* ConflictError ends with that ConflictError as its error, returns 1 and
\* holds no handle.
ClaimC16 ==
    /\ Cardinality(Live(store, AGENT_ID)) <= 1
    /\ (InterleavedNoFaults /\ Done(1) /\ Done(2)) =>
          Cardinality(Live(store, AGENT_ID)) = 1
    /\ \A r \in Runs : CallsEnding(r, "create", "ConflictError") # {} =>
          /\ err[r] = "ConflictError"
          /\ agent[r] = 0
          /\ Calls(r, "set_state") = {}
          /\ Done(r) => result[r] = RETURN_ERROR

\* both interleaved runs are over and one of them lost the race of create
WitnessC16 ==
    /\ InterleavedNoFaults /\ Done(1) /\ Done(2)
    /\ \E r \in Runs : CallsEnding(r, "create", "ConflictError") # {}
    /\ \E r \in Runs : CallsEnding(r, "create", "ok") # {}

----------------------------------------------------------------------------
(* C17 *)

\* the calls whose failure reaches the outer except
Decisive == {"open", "list_agents", "create", "set_state", "get_info"}

AllSucceeded(r) ==
    \A op \in Decisive : CallsEnding(r, op, "ok") # {} /\ CallsFailed(r, op) = {}

SomeFailed(r) == \E op \in Decisive : CallsFailed(r, op) # {}

\* the value main() returned, and why
ResultOfRun ==
    \A r \in Runs :
        /\ ~Done(r) => result[r] = -1
        /\ Done(r) =>
              /\ result[r] \in {RETURN_OK, RETURN_ERROR}
              /\ result[r] = RETURN_OK <=> AllSucceeded(r)
              /\ result[r] = RETURN_ERROR <=> SomeFailed(r)
              /\ result[r] = RETURN_ERROR <=> err[r] # "none"
        /\ err[r] # "none" =>
              \E op \in Decisive : \E i \in CallsFailed(r, op) :
                  err[r] = log[r][i][4] /\ pc[r] \in {"exit", "done"}

\* C17: termination and result of a run. Given that every backend call
\* returns or fails, every run that entered main() returns; it returns 0 or
\* 1, every failure that ends the run is turned into the result 1; the
\* result is 0 exactly when open, list_agents, create, set_state(RUNNING)
\* and get_info all succeeded and 1 exactly when one of them failed, so a
\* failure of load or delete alone never makes the result 1.
ClaimC17 ==
    /\ []ResultOfRun
    /\ <>[](\A r \in Runs : ~Active(r))

\* a run returned 0 although its load failed with a fault, and another
\* returned 1
WitnessC17 ==
    /\ \E r \in Runs :
          /\ Done(r) /\ result[r] = RETURN_OK
          /\ CallsEnding(r, "load", "ConnectionError") # {}
    /\ \E r \in Runs : Done(r) /\ result[r] = RETURN_ERROR

====
